---- MODULE Spec2Model ----
(***************************************************************************)
(* avis.py: audio visualizer / matrix controller.                          *)
(*                                                                         *)
(* Numbers.  Raw amplitudes are small non-negative integers.  A normalized *)
(* amplitude is the exact fraction [n |-> a - min, d |-> max - min] that   *)
(* line 145 divides out.  Dropoffs are counted in quarter rows (the 0.25   *)
(* step of line 46 is 1 unit, the 0.5 margin is 2 units, a row is 4), all  *)
(* of which binary floating point represents exactly.                      *)
(*                                                                         *)
(* An audio frame is given by the magnitudes of the coefficients that      *)
(* line 94 keeps (the transform itself is not modelled), plus its place in *)
(* the order of enqueueing.                                                *)
(***************************************************************************)
EXTENDS Integers, Sequences, FiniteSets, TLC

\* ------------------------------------------------------------ configuration
led_width  == 2      \* columns (scaled down)
led_height == 16     \* rows
hist_len   == 3      \* slots of the history ring (scaled down)

MaxAmp    == 2       \* largest coefficient magnitude / raw amplitude
MaxQueue  == 2       \* frames waiting in the queue
MaxFrames == 4       \* frames the producer delivers in a run
MaxTicks  == 3       \* iterations of the render loop in a run

Cols  == 0 .. (led_width - 1)
Slots == 0 .. (hist_len - 1)

\* quarter-row units per row
Quarter == 4

\* queue.Queue(): maxsize 0, which means no limit
q_maxsize == 0

None == [seq |-> 0]

\* number of coefficients left by line 94: one more than the buckets use
NCoef == led_width + 1

VARIABLES
    q,              \* the audio queue, oldest frame first
    enqueued,       \* frames put so far; a frame's seq is its place in that order
    pc,             \* where the render loop is
    cur_frame,      \* start_vis: cur_frame
    min_buf, max_buf, hist_idx,     \* the history ring
    raw,            \* the amplitude vector handed to normalize_amplitudes
    amps,           \* the amplitude vector after normalize_amplitudes
    current_levels, \* matrix state
    dropoffs,       \* dropoff states, in quarter rows
    display,        \* what output_matrix last painted, per column
    serial,         \* every byte written to local_device, in order
    ticks,          \* completed loop iterations
    drained,        \* frames returned by get_nowait in this iteration
    emptyAt,        \* value of enqueued when queue.Empty was raised
    lastProc,       \* seq of the frame the previous iteration processed
    trail,          \* ring slots written by the last (at most hist_len) calls
    constRun,       \* the calls so far, while all were one positive constant frame
    peaked,         \* per column: a nonzero level has been rendered
    quit,           \* output_matrix has returned False
    fft             \* the coefficients of a frame and the indices read of them

vars == << q, enqueued, pc, cur_frame, min_buf, max_buf, hist_idx, raw, amps,
           current_levels, dropoffs, display, serial, ticks, drained, emptyAt,
           lastProc, trail, constRun, peaked, quit, fft >>

queueVars == << q, enqueued, cur_frame, drained, emptyAt, lastProc >>
ringVars  == << min_buf, max_buf, hist_idx, raw, amps, trail, constRun >>
decayVars == << current_levels, dropoffs, display, peaked, quit >>

\* ------------------------------------------------------------ render_column
Max(a, b) == IF a >= b THEN a ELSE b

\* render_column falling half a row per tick
render_column_fast(d, l) ==
    LET d1 == Max(d - 2, Quarter * l + 2)
        d2 == IF d1 < 0 THEN 0 ELSE d1
    IN  IF d2 >= Quarter * led_height THEN Quarter * (led_height - 1) ELSE d2

\* lines 46-51, on one column: d the dropoff (quarter rows), l the level
render_column(d, l) ==
    LET d1 == Max(d - 1, Quarter * l + 2)
        d2 == IF d1 < 0 THEN 0 ELSE d1
    IN  IF d2 >= Quarter * led_height THEN Quarter * (led_height - 1) ELSE d2

\* paint_column with the bar left out
paint_column_no_bar(d, l) == [bar |-> 0, marker |-> d]

\* lines 58-62: the bar (none for level 0) and the dropoff point of a column
paint_column(d, l) == [bar |-> l, marker |-> d]

\* ------------------------------------------------------- compute_amplitudes
\* bucket width rounded up
bucket_width_ceil(n) == (n + led_width - 1) \div led_width

\* line 98, for n coefficients
bucket_width_of(n) == n \div led_width

bucket_width == bucket_width_of(NCoef)

\* lines 100-102: the indices column i reads of n coefficients, in order
RECURSIVE bucket_reads(_, _, _)
bucket_reads(n, i, j) ==
    IF j >= bucket_width_of(n) THEN << >>
    ELSE << i * bucket_width_of(n) + j >> \o bucket_reads(n, i, j + 1)

RECURSIVE bucket_sum(_, _, _)
bucket_sum(mag, i, j) ==
    IF j >= bucket_width THEN 0
    ELSE mag[i * bucket_width + j] + bucket_sum(mag, i, j + 1)

compute_amplitudes(frame) ==
    [i \in Cols |-> bucket_sum(frame.mag, i, 0) \div bucket_width]

\* ----------------------------------------------------- normalize_amplitudes
RECURSIVE scan_min(_, _, _, _)
scan_min(f, n, i, cur) ==
    IF i >= n THEN cur
    ELSE scan_min(f, n, i + 1, IF f[i] < cur THEN f[i] ELSE cur)

RECURSIVE scan_max(_, _, _, _)
scan_max(f, n, i, cur) ==
    IF i >= n THEN cur
    ELSE scan_max(f, n, i + 1, IF f[i] > cur THEN f[i] ELSE cur)

\* frame_min without the loop of lines 117-119
frame_min_first(amp) == amp[0]

\* lines 113-121
frame_min(amp) == scan_min(amp, led_width, 0, amp[0])
frame_max(amp) == scan_max(amp, led_width, 0, amp[0])

\* next_idx wrapping one call late
next_idx_late(idx) == IF idx + 1 > hist_len THEN 0 ELSE idx + 1

\* lines 127-130
next_idx(idx) == IF idx + 1 >= hist_len THEN 0 ELSE idx + 1

\* hist_min that leaves the ring out
hist_min_frame_only(buf, cur) == cur

\* hist_max that leaves the ring out
hist_max_frame_only(buf, cur) == cur

\* hist_max with the comparison of line 136 turned round
hist_max_least(buf, cur) == scan_min(buf, hist_len, 0, cur)

\* lines 133-137
hist_min(buf, cur) == scan_min(buf, hist_len, 0, cur)
hist_max(buf, cur) == scan_max(buf, hist_len, 0, cur)

\* range_max without the test of line 140
range_max_unguarded(lo, hi) == hi

\* lines 140-141
range_max(lo, hi) == IF hi = lo THEN lo + 1 ELSE hi

\* rescale measuring from the top of the range
rescale_from_top(amp, lo, hi) == [i \in Cols |-> [n |-> hi - amp[i], d |-> hi - lo]]

\* lines 144-145
rescale(amp, lo, hi) == [i \in Cols |-> [n |-> amp[i] - lo, d |-> hi - lo]]

normalize_amplitudes(amp, mins, maxs, idx) ==
    LET cmin  == frame_min(amp)
        cmax  == frame_max(amp)
        mins1 == [mins EXCEPT ![idx] = cmin]
        maxs1 == [maxs EXCEPT ![idx] = cmax]
        lo    == hist_min(mins1, cmin)
        hi    == range_max(lo, hist_max(maxs1, cmax))
    IN  [min_buf |-> mins1, max_buf |-> maxs1, hist_idx |-> next_idx(idx),
         slot |-> idx, lo |-> lo, hi |-> hi, amp |-> rescale(amp, lo, hi)]

\* --------------------------------------------- update_matrix_from_amplitudes
\* int(): truncation toward zero
Trunc(n, d) == IF n >= 0 THEN n \div d ELSE 0 - ((0 - n) \div d)

level_of(a) == Trunc(a.n * led_height, a.d)

update_matrix_from_amplitudes(a) == [x \in Cols |-> level_of(a[x])]

\* ------------------------------------------------------------ upload_matrix
\* int.to_bytes(1, byteorder='big'): the value itself when it fits a byte
to_byte(v) == IF 0 <= v /\ v <= 255 THEN v ELSE -1

RECURSIVE upload_bytes(_, _)
upload_bytes(levels, i) ==
    IF i >= led_width THEN << >>
    ELSE << to_byte(levels[i]) >> \o upload_bytes(levels, i + 1)

\* upload_matrix with the terminator of line 86 written
frame_bytes_terminated(levels) == upload_bytes(levels, 0) \o << 255 >>

\* lines 84-85: what one call of upload_matrix writes
frame_bytes(levels) == upload_bytes(levels, 0)

\* ------------------------------------------------------------------ inputs
Flat(a) == [k \in 0 .. (NCoef - 1) |-> a]
Ramp    == [k \in 0 .. (NCoef - 1) |-> k % (MaxAmp + 1)]
Spectra == { Flat(a) : a \in 0 .. MaxAmp } \cup { Ramp }

ZeroCols == [x \in Cols |-> 0]

\* ------------------------------------------------------------------- Init
Init ==
    /\ q = << >>
    /\ enqueued = 0
    /\ pc = "loop"
    /\ cur_frame = None
    /\ min_buf = [s \in Slots |-> 0]
    /\ max_buf = [s \in Slots |-> 0]
    /\ hist_idx = 0
    /\ raw = ZeroCols
    /\ amps = [x \in Cols |-> [n |-> 0, d |-> 1]]
    /\ current_levels = ZeroCols
    /\ dropoffs = ZeroCols
    /\ display = [x \in Cols |-> paint_column(0, 0)]
    /\ serial = << >>
    /\ ticks = 0
    /\ drained = 0
    /\ emptyAt = 0
    /\ lastProc = 0
    /\ trail = << >>
    /\ constRun = [c |-> 0, n |-> 0]
    /\ peaked = [x \in Cols |-> FALSE]
    /\ quit = FALSE
    /\ fft = [n |-> 0, mag |-> << >>, reads |-> [i \in Cols |-> << >>]]

\* ------------------------------------------------------------ the producer
\* Queue.put on a queue limited to one frame
put_ready_limited(queue) == Len(queue) < 1

\* Queue.put: waits only while a limited queue is full
put_ready(queue) == q_maxsize <= 0 \/ Len(queue) < q_maxsize

\* lines 161-164
callback ==
    /\ enqueued < MaxFrames
    /\ Len(q) < MaxQueue
    /\ put_ready(q)
    /\ \E s \in Spectra :
         q' = Append(q, [seq |-> enqueued + 1, mag |-> s])
    /\ enqueued' = enqueued + 1
    /\ UNCHANGED << pc, cur_frame, drained, emptyAt, lastProc, ticks, serial, fft >>
    /\ UNCHANGED ringVars
    /\ UNCHANGED decayVars

\* ----------------------------------------------------------- the consumer
\* the loop of line 170 going on whatever output_matrix returns
output_matrix_unheeded ==
    /\ pc = "loop"
    /\ ticks < MaxTicks
    /\ dropoffs' = [x \in Cols |-> render_column(dropoffs[x], current_levels[x])]
    /\ display' = [x \in Cols |-> paint_column(dropoffs'[x], current_levels[x])]
    /\ peaked' = [x \in Cols |-> peaked[x] \/ current_levels[x] > 0]
    /\ \E go \in BOOLEAN : quit' = ~go
    /\ pc' = "drain"
    /\ cur_frame' = None
    /\ drained' = 0
    /\ UNCHANGED << q, enqueued, emptyAt, lastProc, ticks, serial, fft, current_levels >>
    /\ UNCHANGED ringVars

\* lines 65-80 and the loop test of line 170
output_matrix ==
    /\ pc = "loop"
    /\ ticks < MaxTicks
    /\ dropoffs' = [x \in Cols |-> render_column(dropoffs[x], current_levels[x])]
    /\ display' = [x \in Cols |-> paint_column(dropoffs'[x], current_levels[x])]
    /\ peaked' = [x \in Cols |-> peaked[x] \/ current_levels[x] > 0]
    /\ \E go \in BOOLEAN :
         /\ quit' = ~go
         /\ pc' = IF go THEN "drain" ELSE "done"
         /\ cur_frame' = IF go THEN None ELSE cur_frame
         /\ drained' = IF go THEN 0 ELSE drained
    /\ UNCHANGED << q, enqueued, emptyAt, lastProc, ticks, serial, fft, current_levels >>
    /\ UNCHANGED ringVars

\* line 176, a frame is there
get_nowait ==
    /\ pc = "drain"
    /\ q # << >>
    /\ cur_frame' = Head(q)
    /\ q' = Tail(q)
    /\ drained' = IF drained < MaxFrames THEN drained + 1 ELSE drained
    /\ UNCHANGED << pc, enqueued, emptyAt, lastProc, ticks, serial, fft >>
    /\ UNCHANGED ringVars
    /\ UNCHANGED decayVars

\* the drain giving up after the first frame it got
queue_empty_after_first ==
    /\ pc = "drain"
    /\ q = << >> \/ cur_frame # None
    /\ pc' = IF cur_frame = None THEN "wait" ELSE "process"
    /\ emptyAt' = enqueued
    /\ UNCHANGED << q, enqueued, cur_frame, drained, lastProc, ticks, serial, fft >>
    /\ UNCHANGED ringVars
    /\ UNCHANGED decayVars

\* queue.Empty followed by the blocking get whatever the drain returned
queue_empty_always_waits ==
    /\ pc = "drain"
    /\ q = << >>
    /\ pc' = "wait"
    /\ emptyAt' = enqueued
    /\ UNCHANGED << q, enqueued, cur_frame, drained, lastProc, ticks, serial, fft >>
    /\ UNCHANGED ringVars
    /\ UNCHANGED decayVars

\* lines 177-178, queue.Empty
queue_empty ==
    /\ pc = "drain"
    /\ q = << >>
    /\ pc' = IF cur_frame = None THEN "wait" ELSE "process"
    /\ emptyAt' = enqueued
    /\ UNCHANGED << q, enqueued, cur_frame, drained, lastProc, ticks, serial, fft >>
    /\ UNCHANGED ringVars
    /\ UNCHANGED decayVars

\* line 179, the blocking get
get ==
    /\ pc = "wait"
    /\ q # << >>
    /\ cur_frame' = Head(q)
    /\ q' = Tail(q)
    /\ pc' = "process"
    /\ UNCHANGED << enqueued, drained, emptyAt, lastProc, ticks, serial, fft >>
    /\ UNCHANGED ringVars
    /\ UNCHANGED decayVars

\* what a call of normalize_amplitudes does to the ring and its bookkeeping
apply_normalize(amp) ==
    LET r == normalize_amplitudes(amp, min_buf, max_buf, hist_idx)
        isConst == \A x \in Cols : amp[x] = amp[0] /\ amp[x] > 0
    IN  /\ raw' = amp
        /\ min_buf' = r.min_buf
        /\ max_buf' = r.max_buf
        /\ hist_idx' = r.hist_idx
        /\ amps' = r.amp
        /\ trail' = IF Len(trail) < hist_len THEN Append(trail, r.slot)
                    ELSE Append(Tail(trail), r.slot)
        /\ constRun' =
             IF constRun.n = 0 /\ isConst THEN [c |-> amp[0], n |-> 1]
             ELSE IF constRun.n > 0 /\ isConst /\ amp[0] = constRun.c
                  THEN [c |-> constRun.c,
                        n |-> IF constRun.n > hist_len THEN constRun.n
                              ELSE constRun.n + 1]
             ELSE [c |-> 0, n |-> -1]

\* the iteration going back to the loop test without uploading
process_skips_upload ==
    /\ pc = "process"
    /\ apply_normalize(compute_amplitudes(cur_frame))
    /\ current_levels' = update_matrix_from_amplitudes(amps')
    /\ lastProc' = cur_frame.seq
    /\ pc' = "loop"
    /\ UNCHANGED << q, enqueued, cur_frame, drained, emptyAt, ticks, serial, fft,
                    dropoffs, display, peaked, quit >>

\* lines 182-184
process ==
    /\ pc = "process"
    /\ apply_normalize(compute_amplitudes(cur_frame))
    /\ current_levels' = update_matrix_from_amplitudes(amps')
    /\ lastProc' = cur_frame.seq
    /\ pc' = "upload"
    /\ UNCHANGED << q, enqueued, cur_frame, drained, emptyAt, ticks, serial, fft,
                    dropoffs, display, peaked, quit >>

\* line 187
upload_matrix ==
    /\ pc = "upload"
    /\ serial' = serial \o frame_bytes(current_levels)
    /\ pc' = "sleep"
    /\ UNCHANGED << ticks, fft >>
    /\ UNCHANGED queueVars
    /\ UNCHANGED ringVars
    /\ UNCHANGED decayVars

\* line 189
sleep ==
    /\ pc = "sleep"
    /\ pc' = "loop"
    /\ ticks' = ticks + 1
    /\ UNCHANGED << serial, fft >>
    /\ UNCHANGED queueVars
    /\ UNCHANGED ringVars
    /\ UNCHANGED decayVars

Next ==
    \/ callback
    \/ output_matrix
    \/ get_nowait
    \/ queue_empty
    \/ get
    \/ process
    \/ upload_matrix
    \/ sleep

Spec == Init /\ [][Next]_vars

\* --------------------------------- the pipeline with a producer that goes on
\* the frames of the endless producer: their content does not matter here
LiveSpectra == { Ramp }

\* lines 161-164 without an end: the frames after the first MaxFrames share
\* one seq
callback_live ==
    /\ Len(q) < MaxQueue
    /\ put_ready(q)
    /\ \E s \in LiveSpectra :
         q' = Append(q, [seq |-> enqueued + 1, mag |-> s])
    /\ enqueued' = IF enqueued < MaxFrames THEN enqueued + 1 ELSE enqueued
    /\ UNCHANGED << pc, cur_frame, drained, emptyAt, lastProc, ticks, serial, fft >>
    /\ UNCHANGED ringVars
    /\ UNCHANGED decayVars

NextLive ==
    \/ callback_live
    \/ output_matrix
    \/ get_nowait
    \/ queue_empty
    \/ get
    \/ process
    \/ upload_matrix
    \/ sleep

\* the steps of the render loop's body
consumer == get_nowait \/ queue_empty \/ get \/ process \/ upload_matrix \/ sleep

\* both threads keep being scheduled
SpecLive ==
    Init /\ [][NextLive]_vars /\ WF_vars(consumer) /\ WF_vars(callback_live)

\* ------------------------------------------- the normalizer on its own
\* raw vectors: column 0 and the remaining columns vary independently
RawVectors ==
    { [x \in Cols |-> IF x = 0 THEN a ELSE b] : a, b \in 0 .. MaxAmp }

\* one call of normalize_amplitudes (lines 110-145) on any raw vector
norm_tick ==
    /\ \E amp \in RawVectors : apply_normalize(amp)
    /\ UNCHANGED << pc, ticks, serial, fft >>
    /\ UNCHANGED queueVars
    /\ UNCHANGED decayVars

SpecNorm == Init /\ [][norm_tick]_vars

\* ---------------------------------------- the decay tracker on its own
\* normalized amplitudes k/led_height for the interesting k: silence, one
\* row, half, one row short of full, full
DecaySteps == { 0, 1, led_height \div 2, led_height - 1, led_height }

DecayAmps ==
    { [x \in Cols |-> [n |-> IF x = 0 THEN a ELSE b, d |-> led_height]] :
        a, b \in DecaySteps }

\* update_matrix_from_amplitudes (line 184) followed by the render loop of the
\* next output_matrix (lines 68-69)
decay_tick ==
    /\ \E a \in DecayAmps :
         current_levels' = update_matrix_from_amplitudes(a)
    /\ dropoffs' = [x \in Cols |-> render_column(dropoffs[x], current_levels'[x])]
    /\ display' = [x \in Cols |-> paint_column(dropoffs'[x], current_levels'[x])]
    /\ peaked' = [x \in Cols |-> peaked[x] \/ current_levels'[x] > 0]
    /\ UNCHANGED << pc, ticks, serial, fft, quit >>
    /\ UNCHANGED queueVars
    /\ UNCHANGED ringVars

SpecDecay == Init /\ [][decay_tick]_vars

\* ------------------------------------------- the bucketing on its own
MaxCoef == 7         \* largest coefficient count

\* the loops of compute_amplitudes (lines 97-105) on a frame of n >= led_width
\* coefficients
bucket_tick ==
    /\ \E n \in led_width .. MaxCoef :
         \E mag \in [0 .. (n - 1) -> 0 .. 1] :
             fft' = [n |-> n, mag |-> mag,
                     reads |-> [i \in Cols |-> bucket_reads(n, i, 0)]]
    /\ UNCHANGED << pc, ticks, serial >>
    /\ UNCHANGED queueVars
    /\ UNCHANGED ringVars
    /\ UNCHANGED decayVars

SpecBuckets == Init /\ [][bucket_tick]_vars

\* ================================================================ claims
InUnit(a) == a.d > 0 /\ 0 <= a.n /\ a.n <= a.d
IsZero(a) == a.d > 0 /\ a.n = 0
IsOne(a)  == a.d > 0 /\ a.n = a.d

\* C1: after normalize_amplitudes has run, on any raw vector and at any tick,
\* every element of the vector lies in [0,1].
C1_NormalizedInUnit == \A x \in Cols : InUnit(amps[x])

\* a call has run with the ring partly filled and left a value strictly
\* between 0 and 1 next to a 1
C1_Witness ==
    /\ trail # << >>
    /\ \E x, y \in Cols :
         /\ amps[x].n > 0 /\ amps[x].n < amps[x].d
         /\ IsOne(amps[y])

\* C2: after every render_column, dropoffs[x] is never greater than
\* led_height - 1 and never less than 0.
C2_DropoffInRange ==
    \A x \in Cols : 0 <= dropoffs[x] /\ dropoffs[x] <= Quarter * (led_height - 1)

\* C3 as stated: with a level of 0 after a nonzero level, the dropoff falls by
\* exactly 0.25 per tick until it reaches 0, and then stays at 0.
C3_FallsToZero ==
    [][\A x \in Cols :
         (peaked[x] /\ current_levels'[x] = 0)
             => dropoffs'[x] = Max(dropoffs[x] - 1, 0)]_vars

\* C3 amended: with a level of 0 after a nonzero level, the dropoff falls by
\* exactly 0.25 per tick until it reaches 0.5, and then stays at 0.5.
C3_FallsToRest ==
    [][\A x \in Cols :
         (peaked[x] /\ current_levels'[x] = 0)
             => /\ dropoffs[x] >= 2
                /\ dropoffs'[x] = Max(dropoffs[x] - 1, 2)]_vars

\* a column that had a nonzero level has fallen all the way to its rest
C3_Witness ==
    \E x \in Cols : peaked[x] /\ current_levels[x] = 0 /\ dropoffs[x] = 2

\* C4: after exactly hist_len calls of normalize_amplitudes, from any cursor
\* position, the cursor is back at its starting value and every slot of the
\* ring has been written exactly once.
C4_RingWraps ==
    Len(trail) = hist_len =>
        /\ hist_idx = trail[1]
        /\ \A s \in Slots :
             Cardinality({ k \in 1 .. hist_len : trail[k] = s }) = 1

\* hist_len calls that started from a cursor other than 0
C4_Witness == Len(trail) = hist_len /\ trail[1] # 0

\* C5 as stated: identical non-zero constant frames from the all-zero ring
\* give an all-zero normalized vector on the second and every later tick.
C5_ZeroFromSecond ==
    constRun.n >= 2 => \A x \in Cols : IsZero(amps[x])

\* C5 amended: identical positive constant frames from the all-zero ring give
\* an all-one vector on ticks 1 .. hist_len-1 and an all-zero vector on tick
\* hist_len and every later tick.
C5_ZeroFromRingFull ==
    /\ (constRun.n >= 1 /\ constRun.n < hist_len)
           => \A x \in Cols : IsOne(amps[x])
    /\ constRun.n >= hist_len => \A x \in Cols : IsZero(amps[x])

\* hist_len + 1 identical positive frames have been fed
C5_Witness ==
    /\ constRun.n = hist_len + 1
    /\ constRun.c > 0
    /\ \A s \in Slots : min_buf[s] = constRun.c /\ max_buf[s] = constRun.c
    /\ \A x \in Cols : IsZero(amps[x])

\* the bytes the iteration numbered k (from 1) wrote, as a vector over columns
Uploaded(k) == [x \in Cols |-> serial[led_width * (k - 1) + x + 1]]

\* C6: each completed tick writes exactly led_width bytes, one per column in
\* increasing column order, the i-th equal to current_levels[i] of that tick,
\* and nothing else is written.
C6_FrameOnWire ==
    /\ Len(serial) = led_width * (ticks + (IF pc = "sleep" THEN 1 ELSE 0))
    /\ pc \in {"sleep", "loop"} /\ Len(serial) > 0
           => Uploaded(Len(serial) \div led_width) = current_levels

\* a second frame is on the wire, with different levels in different columns
C6_Witness ==
    /\ pc = "sleep"
    /\ ticks >= 1
    /\ \E x, y \in Cols : current_levels[x] < current_levels[y]

\* C7: every byte written to the serial device is at most led_height - 1.
C7_ByteBelowHeight ==
    \A k \in 1 .. Len(serial) : 0 <= serial[k] /\ serial[k] <= led_height - 1

\* C8 as stated: the frame a tick processes is the most recently enqueued
\* frame at the moment the drain observed the queue empty.
C8_LatestAtEmpty ==
    pc = "process" => cur_frame.seq = emptyAt

\* C8 amended: if the drain removed a frame, the tick processes the most
\* recently enqueued frame at the moment the drain observed the queue empty;
\* if it removed none, the tick processes the first frame enqueued after that
\* moment.  Either way every frame enqueued before it has left the queue, and
\* successive ticks process frames in strictly increasing enqueue order.
C8_LatestWins ==
    /\ \A k \in 1 .. Len(q) : q[k].seq > lastProc
    /\ pc = "process" =>
         /\ drained > 0 => cur_frame.seq = emptyAt
         /\ drained = 0 => cur_frame.seq = emptyAt + 1
         /\ cur_frame.seq > lastProc
         /\ \A k \in 1 .. Len(q) : q[k].seq > cur_frame.seq
    /\ pc \in {"upload", "sleep"} => lastProc = cur_frame.seq

\* a drain discarded an older frame, after an earlier tick had processed one
C8_Witness ==
    /\ pc = "process"
    /\ drained >= 2
    /\ lastProc >= 1
    /\ cur_frame.seq = emptyAt

\* C9: in every state of the consumer and for any queue length, the enqueue
\* of a new frame is enabled (short of the bounds of this model) and is one
\* step that appends one frame to the queue and leaves the consumer where it is.
C9_ProducerNeverBlocks ==
    (enqueued < MaxFrames /\ Len(q) < MaxQueue) =>
        ENABLED (/\ callback
                 /\ Len(q') = Len(q) + 1
                 /\ SubSeq(q', 1, Len(q)) = q
                 /\ pc' = pc)

\* a frame is already queued while the consumer is still blocked in get, and
\* the next enqueue is due
C9_Witness ==
    /\ pc = "wait"
    /\ Len(q) = 1
    /\ enqueued < MaxFrames

\* C10 as stated: the levels output_matrix paints in a loop iteration are the
\* levels upload_matrix writes in that iteration.
C10_SameIteration ==
    pc = "sleep" => \A x \in Cols : display[x].bar = Uploaded(ticks + 1)[x]

\* C10 amended: the levels output_matrix paints in a loop iteration are the
\* levels upload_matrix wrote in the previous iteration (all zero in the
\* first iteration).
C10_PreviousIteration ==
    pc # "loop" =>
        \A x \in Cols :
            display[x].bar = IF ticks = 0 THEN 0 ELSE Uploaded(ticks)[x]

\* the second iteration has painted nonzero levels and uploaded different ones
C10_Witness ==
    /\ pc = "sleep"
    /\ ticks = 1
    /\ \E x \in Cols : display[x].bar > 0
    /\ \E x \in Cols : display[x].bar # current_levels[x]

\* ------------------------------------------------------------ C11 .. C15
MaxScale == 2        \* largest factor the raw amplitudes are multiplied by

SetMin(S) == CHOOSE m \in S : \A y \in S : m <= y
SetMax(S) == CHOOSE m \in S : \A y \in S : m >= y

\* a <= b for fractions with positive denominators
Leq(a, b) == a.n * b.d <= b.n * a.d

Scaled(k, amp) == [x \in Cols |-> k * amp[x]]

\* the window of the last call: every slot of the ring as the call left it,
\* and the frame it was given
WinMin == SetMin({ min_buf[s] : s \in Slots } \cup { raw[x] : x \in Cols })
WinMax == SetMax({ max_buf[s] : s \in Slots } \cup { raw[x] : x \in Cols })

\* what line 145 subtracted and divided by in the last call
EffMin == raw[0] - amps[0].n
EffDiv == amps[0].d

\* C11: within one call raw[i] <= raw[j] implies normalized[i] <= normalized[j],
\* and the same call on the same ring with every raw amplitude multiplied by
\* a positive constant orders the normalized columns the same way.
C11_OrderPreserved ==
    [][/\ \A i, j \in Cols : raw'[i] <= raw'[j] => Leq(amps'[i], amps'[j])
       /\ \A k \in 2 .. MaxScale :
            LET sc == normalize_amplitudes(Scaled(k, raw'), min_buf, max_buf,
                                           hist_idx).amp
            IN  \A i, j \in Cols :
                    Leq(amps'[i], amps'[j]) <=> Leq(sc[i], sc[j])]_vars

\* a call on a ring that already holds history gave two columns different
\* normalized values
C11_Witness ==
    /\ Len(trail) >= 2
    /\ \E i, j \in Cols :
         /\ raw[i] < raw[j]
         /\ Leq(amps[i], amps[j]) /\ ~Leq(amps[j], amps[i])

\* C13: at every rescale the divisor is strictly positive, and it is exactly 1
\* when the effective max equals the effective min.
C13_DivisorPositive ==
    trail # << >> =>
        \A x \in Cols :
            /\ amps[x].d > 0
            /\ WinMax = WinMin => amps[x].d = 1

\* the ring is full of one positive value, so max equals min
C13_Witness ==
    /\ Len(trail) = hist_len
    /\ WinMax = WinMin
    /\ WinMin > 0
    /\ EffDiv = 1

\* C14: the min and max used for rescaling are those over all hist_len slots
\* (after this tick's write) and the current frame; slots never written still
\* hold 0, so for strictly positive input the effective min is 0 on each of
\* the first hist_len - 1 ticks.
C14_WindowIsWholeRing ==
    trail # << >> =>
        /\ EffMin = WinMin
        /\ EffMin + EffDiv = (IF WinMax = WinMin THEN WinMin + 1 ELSE WinMax)
        /\ Len(trail) < hist_len =>
             /\ \A s \in Slots \ { trail[k] : k \in 1 .. Len(trail) } :
                    min_buf[s] = 0 /\ max_buf[s] = 0
             /\ (\A x \in Cols : raw[x] > 0) => EffMin = 0

\* tick hist_len - 1 of strictly positive frames: every written slot is
\* positive and the effective min is still 0
C14_Witness ==
    /\ Len(trail) = hist_len - 1
    /\ \A x \in Cols : raw[x] > 0
    /\ \A k \in 1 .. Len(trail) : min_buf[trail[k]] > 0
    /\ EffMin = 0
    /\ EffDiv = WinMax

\* C15: the cursor stays in 0 .. hist_len-1, and each call writes the frame's
\* min and max to the slot under the cursor, leaves every other slot alone and
\* advances the cursor by one modulo hist_len.
C15_WriteAtCursor ==
    [][/\ hist_idx \in Slots
       /\ hist_idx' \in Slots
       /\ min_buf' = [min_buf EXCEPT ![hist_idx] = SetMin({ raw'[x] : x \in Cols })]
       /\ max_buf' = [max_buf EXCEPT ![hist_idx] = SetMax({ raw'[x] : x \in Cols })]
       /\ hist_idx' = (hist_idx + 1) % hist_len]_vars

\* the cursor has wrapped and slot 0 has been written a second time, with a
\* frame whose min and max differ
C15_Witness ==
    /\ Len(trail) = hist_len
    /\ trail[hist_len] = 0
    /\ hist_idx = 1 % hist_len
    /\ min_buf[0] # max_buf[0]
    /\ min_buf[0] = SetMin({ raw[x] : x \in Cols })

\* ------------------------------------------------------------ C12, C16, C17
\* C12: once output_matrix has reported stop the loop has exited: no frame
\* is dequeued, the history ring and current_levels do not change and no byte
\* is written to the serial device any more.
C12_StopEndsLoop ==
    [][quit =>
         /\ pc = "done" /\ pc' = "done"
         /\ cur_frame' = cur_frame
         /\ Len(q') >= Len(q)
         /\ << min_buf, max_buf, hist_idx >>' = << min_buf, max_buf, hist_idx >>
         /\ current_levels' = current_levels
         /\ serial' = serial]_vars

\* stop was reported after a completed tick, a frame is still queued and
\* the producer has just added another
C12_Witness ==
    /\ quit
    /\ pc = "done"
    /\ ticks >= 1
    /\ Len(q) >= 2

\* C16: after every render_column(x) the peak marker is at or beyond the tip
\* of the bar: dropoffs[x] >= current_levels[x].
C16_MarkerBeyondBar ==
    \A x \in Cols : display[x].marker >= Quarter * display[x].bar

\* C17: the consumer waits only if the drain removed nothing, then takes
\* exactly the first frame enqueued after the queue was seen empty, and
\* never processes without a frame.
C17_NeverWithoutFrame ==
    /\ pc = "wait" => (drained = 0 /\ cur_frame = None)
    /\ (pc = "wait" /\ q = << >>) => ~ENABLED get
    /\ pc = "process" =>
         /\ cur_frame # None
         /\ drained = 0 => cur_frame.seq = emptyAt + 1
    /\ pc \in {"upload", "sleep"} => cur_frame # None

\* a tick other than the first found the queue empty, waited, and now holds
\* the frame enqueued next, with a newer one queued behind it
C17_Witness ==
    /\ pc = "process"
    /\ drained = 0
    /\ ticks >= 1
    /\ cur_frame.seq = emptyAt + 1
    /\ q # << >>

\* ------------------------------------------------------------------- C18
ReadBy(i) == { fft.reads[i][k] : k \in 1 .. Len(fft.reads[i]) }

\* C18: for n >= led_width coefficients and bucket_width = floor(n/led_width),
\* column i reads exactly the indices i*bucket_width .. (i+1)*bucket_width-1:
\* every index read is below n, every index below bucket_width*led_width is
\* read by exactly one column, and the indices from there to n-1 by none.
C18_BucketsPartition ==
    fft.n >= led_width =>
        LET bw == fft.n \div led_width
        IN  /\ \A i \in Cols :
                 /\ fft.reads[i] = [k \in 1 .. bw |-> i * bw + k - 1]
                 /\ \A r \in ReadBy(i) : 0 <= r /\ r < fft.n
            /\ \A r \in 0 .. (fft.n - 1) :
                 Cardinality({ i \in Cols : r \in ReadBy(i) })
                     = (IF r < bw * led_width THEN 1 ELSE 0)

\* buckets wider than one coefficient, and a trailing coefficient that is
\* not zero and not read
C18_Witness ==
    /\ fft.n >= 2 * led_width
    /\ fft.n % led_width # 0
    /\ fft.mag[fft.n - 1] = 1
    /\ \A i \in Cols : (fft.n - 1) \notin ReadBy(i)

\* ------------------------------------------------------------------- C19
\* C19 as stated: with the consumer's steps weakly fair and a producer that
\* keeps enqueuing, every started tick reaches its serial upload.
C19_TickCompletes == (pc = "drain") ~> (pc = "sleep")

\* C19 amended: unless the producer goes on enqueuing while the consumer is
\* draining for ever, every started tick reaches its serial upload; and each
\* loop iteration that gets there writes exactly one frame.
C19_CompletesUnlessFlooded ==
    /\ \/ []<><<callback_live /\ pc = "drain">>_vars
       \/ (pc = "drain") ~> (pc = "sleep")
    /\ [](Len(serial) = led_width * (ticks + (IF pc = "sleep" THEN 1 ELSE 0)))

\* a tick that drained two frames, the newer one enqueued after the first
\* MaxFrames, has uploaded
C19_Witness ==
    /\ pc = "sleep"
    /\ drained >= 2
    /\ enqueued = MaxFrames
    /\ cur_frame.seq = MaxFrames + 1
    /\ Len(serial) = led_width * (ticks + 1)

====
